---------------------------- MODULE Spec2Model ----------------------------
(***************************************************************************)
(* A model of gaemma/fileserver (src/main.go): a single-directory HTTP     *)
(* file server.  main resolves the served path and the bind address, then  *)
(* every request is handled by serve against the package variables root    *)
(* and file.                                                               *)
(*                                                                         *)
(* Strings are sequences of one-character strings, so that strings.Trim,   *)
(* filepath.Join / Clean / Dir / Base are computed character by character  *)
(* as the Go library computes them.  The filesystem is a function from     *)
(* nodes (sequences of names) to the kind of entry found there.            *)
(***************************************************************************)
EXTENDS Integers, Sequences, FiniteSets, TLC

VARIABLES
    fs,         \* the filesystem: node -> kind
    fsChanges,  \* number of changes other processes made to the filesystem
    mainpc,     \* position of main: "start", "resolved", "bound", "serving", "exited"
    root,       \* package variable root (flag -f, then the served directory)
    file,       \* package variable file ("*" or the one file served)
    netIF,      \* package variable netIF (flag -i)
    ip,         \* the address main listens on
    exitCode,   \* the code given to os.Exit, -1 while the process runs
    resolves,   \* number of times resolvePath has run
    req,        \* one record per handler invocation of the HTTP server
    handles     \* the invocations that hold an open *os.File

vars == <<fs, fsChanges, mainpc, root, file, netIF, ip, exitCode, resolves, req, handles>>

---------------------------------------------------------------------------
(* Bounds of the model. *)

\* longest request path (r.URL.Path), in characters
MaxPathLen == 3
\* longest request path the server that handles requests side by side gets
ConcPathLen == 2
\* number of changes other processes may make to the filesystem
MaxFsChanges == 1
\* number of handler invocations the HTTP server runs side by side
NSlots == 2

Slots == 1..NSlots

---------------------------------------------------------------------------
(* Strings. *)

Sep == "/"
\* the characters request paths are made of
PathChars == {"/", ".", "a", "*"}
\* the value of file that means "every file under root"
Sentinel == <<"*">>
Dot == <<".">>
DotDot == <<".", ".">>
Slash == <<"/">>
\* the process's working directory (os.Getwd)
Cwd == <<"/">>

\* path.Split on the separator, empty elements dropped
RECURSIVE SplitAcc(_, _, _)
SplitAcc(s, cur, acc) ==
    IF s = <<>>
    THEN IF cur = <<>> THEN acc ELSE Append(acc, cur)
    ELSE IF Head(s) = Sep
         THEN SplitAcc(Tail(s), <<>>, IF cur = <<>> THEN acc ELSE Append(acc, cur))
         ELSE SplitAcc(Tail(s), Append(cur, Head(s)), acc)

Split(s) == SplitAcc(s, <<>>, <<>>)

RECURSIVE JoinSegs(_)
JoinSegs(segs) ==
    IF segs = <<>> THEN <<>>
    ELSE IF Len(segs) = 1 THEN Head(segs)
    ELSE Head(segs) \o Slash \o JoinSegs(Tail(segs))

Front(s) == SubSeq(s, 1, Len(s) - 1)
Last(s) == s[Len(s)]

IsAbs(s) == s # <<>> /\ Head(s) = Sep

\* the element stack of filepath.Clean: "." dropped, ".." removes the element
\* before it, is dropped at the root of a rooted path and kept otherwise
RECURSIVE CleanSegs(_, _, _)
CleanSegs(segs, out, rooted) ==
    IF segs = <<>> THEN out
    ELSE LET c == Head(segs) IN
         IF c = Dot THEN CleanSegs(Tail(segs), out, rooted)
         ELSE IF c = DotDot
              THEN IF out # <<>> /\ Last(out) # DotDot
                   THEN CleanSegs(Tail(segs), Front(out), rooted)
                   ELSE IF rooted
                        THEN CleanSegs(Tail(segs), out, rooted)
                        ELSE CleanSegs(Tail(segs), Append(out, c), rooted)
              ELSE CleanSegs(Tail(segs), Append(out, c), rooted)

\* filepath.Clean
Clean(s) ==
    IF s = <<>> THEN Dot
    ELSE LET out == CleanSegs(Split(s), <<>>, IsAbs(s)) IN
         IF IsAbs(s) THEN Slash \o JoinSegs(out)
         ELSE IF out = <<>> THEN Dot ELSE JoinSegs(out)

\* filepath.Join of two elements: empty elements are ignored, the rest is
\* joined with the separator and cleaned
Join(a, b) ==
    IF a = <<>> /\ b = <<>> THEN <<>>
    ELSE IF a = <<>> THEN Clean(b)
    ELSE IF b = <<>> THEN Clean(a)
    ELSE Clean(a \o Slash \o b)

\* filepath.Abs
Abs(p) == IF IsAbs(p) THEN Clean(p) ELSE Join(Cwd, p)

\* filepath.Dir of a path
Dir(p) ==
    LET idx == {i \in 1..Len(p) : p[i] = Sep} IN
    IF idx = {} THEN Dot
    ELSE LET last == CHOOSE i \in idx : \A j \in idx : j <= i IN
         Clean(SubSeq(p, 1, last))

RECURSIVE TrimRight(_)
TrimRight(s) == IF s # <<>> /\ Last(s) = Sep THEN TrimRight(Front(s)) ELSE s

RECURSIVE TrimLeft(_)
TrimLeft(s) == IF s # <<>> /\ Head(s) = Sep THEN TrimLeft(Tail(s)) ELSE s

\* strings.Trim(s, "/")
Trim(s) == TrimRight(TrimLeft(s))

\* filepath.Base of a path
Base(p) ==
    IF p = <<>> THEN Dot
    ELSE LET t == TrimRight(p) IN
         IF t = <<>> THEN Slash
         ELSE LET segs == Split(t) IN Last(segs)

\* every string over the path characters of length n
RECURSIVE StringsOfLen(_)
StringsOfLen(n) ==
    IF n = 0 THEN {<<>>}
    ELSE {Append(s, c) : s \in StringsOfLen(n - 1), c \in PathChars}

\* the request paths of at most n characters: r.URL.Path always starts
\* with "/"
PathsUpTo(n) ==
    UNION {{Slash \o s : s \in StringsOfLen(k)} : k \in 0..(n - 1)}

\* any path can reach the handler: http.ServeMux passes the path of a
\* CONNECT request as it was sent
ReqPaths == PathsUpTo(MaxPathLen)

\* the path http.ServeMux redirects a request for p to: the cleaned path,
\* with the trailing separator of p kept
MuxClean(p) ==
    LET np == Clean(p) IN
    IF Last(p) = Sep /\ np # Slash THEN np \o Slash ELSE np

\* the paths of at most n characters that reach the handler with any other
\* method: those the mux does not redirect
CanonicalPaths(n) == {p \in PathsUpTo(n) : MuxClean(p) = p}

---------------------------------------------------------------------------
(* The filesystem. *)

\* the names of directory entries, in the byte order ioutil.ReadDir sorts by
NameOrder == << <<"*">>, <<"a">> >>
Names == {NameOrder[i] : i \in 1..Len(NameOrder)}

\* a node is the sequence of names leading to it from the filesystem root
Nodes == {<<>>} \cup {<<n>> : n \in Names} \cup {<<n, m>> : n \in Names, m \in Names}

\* "nodir": a directory without search and read permission;
\* "nofile": a regular file without read permission
Kinds == {"none", "file", "dir", "nodir", "nofile"}

Kind(f, node) == IF node \in DOMAIN f THEN f[node] ELSE "none"

A == <<"a">>
Star == <<"*">>

\* /a is a directory holding the files a and *; /* is a file
SiteFS ==
    [n \in Nodes |->
        IF n \in {<<>>, <<A>>} THEN "dir"
        ELSE IF n \in {<<A, A>>, <<A, Star>>, <<Star>>} THEN "file"
        ELSE "none"]

\* /a is a directory holding an unreadable file a; /* is a locked directory
LockedFS ==
    [n \in Nodes |->
        IF n \in {<<>>, <<A>>} THEN "dir"
        ELSE IF n = <<A, A>> THEN "nofile"
        ELSE IF n = <<Star>> THEN "nodir"
        ELSE IF n = <<Star, A>> THEN "file"
        ELSE "none"]

\* /a is a file; /* is a directory holding the file a
FlatFS ==
    [n \in Nodes |->
        IF n \in {<<>>, <<Star>>} THEN "dir"
        ELSE IF n \in {<<A>>, <<Star, A>>} THEN "file"
        ELSE "none"]

InitialFS == {SiteFS, LockedFS, FlatFS}

NoNode == <<Dot>>

\* the kernel's path walk from node cur along the elements segs: every
\* element is looked up in a directory the process may search
RECURSIVE Walk(_, _, _)
Walk(f, cur, segs) ==
    IF segs = <<>> THEN [err |-> "", node |-> cur]
    ELSE LET k == Kind(f, cur) IN
         IF k = "none" THEN [err |-> "ENOENT", node |-> NoNode]
         ELSE IF k \in {"file", "nofile"} THEN [err |-> "ENOTDIR", node |-> NoNode]
         ELSE IF k = "nodir" THEN [err |-> "EACCES", node |-> NoNode]
         ELSE LET c == Head(segs)
                  nxt == IF c = Dot THEN cur
                         ELSE IF c = DotDot
                              THEN IF cur = <<>> THEN cur ELSE Front(cur)
                              ELSE Append(cur, c)
              IN Walk(f, nxt, Tail(segs))

\* the node a path names, or the error of the lookup.  The working directory
\* is the filesystem root (Cwd).
Lookup(f, p) ==
    IF p = <<>> THEN [err |-> "ENOENT", node |-> NoNode]
    ELSE LET w == Walk(f, <<>>, Split(p)) IN
         IF w.err # "" THEN w
         ELSE LET k == Kind(f, w.node) IN
              IF k = "none" THEN [err |-> "ENOENT", node |-> NoNode]
              ELSE IF k \in {"file", "nofile"} /\ Last(p) = Sep
                   THEN [err |-> "ENOTDIR", node |-> NoNode]
                   ELSE w

\* os.Stat: the error, and fi.IsDir()
Stat(f, p) ==
    LET l == Lookup(f, p) IN
    [err |-> l.err, isDir |-> l.err = "" /\ Kind(f, l.node) \in {"dir", "nodir"}]

\* IsNotExist taking every failed stat for a missing entry
IsNotExistAny(err) == err # ""

\* os.IsNotExist
IsNotExist(err) == err = "ENOENT"

\* ioutil.ReadDir: the names in the directory, sorted by name
ReadDir(f, p) ==
    LET l == Lookup(f, p) IN
    IF l.err # "" THEN [err |-> l.err, names |-> <<>>]
    ELSE LET k == Kind(f, l.node) IN
         IF k = "nodir" THEN [err |-> "EACCES", names |-> <<>>]
         ELSE IF k # "dir" THEN [err |-> "ENOTDIR", names |-> <<>>]
         ELSE [err |-> "",
               names |-> SelectSeq(NameOrder,
                             LAMBDA n : Kind(f, Append(l.node, n)) # "none")]

\* os.Open: the error, "" when the file was opened for reading
Open(f, p) ==
    LET l == Lookup(f, p) IN
    IF l.err # "" THEN l.err
    ELSE IF Kind(f, l.node) \in {"nodir", "nofile"} THEN "EACCES"
    ELSE ""

---------------------------------------------------------------------------
(* The process: flags, main, resolvePath, resolveInterface. *)

\* the values of flag -f the model starts with: "", "/a", "/a/a", "/a/*",
\* "/*" and the relative "a/a"
Args ==
    { <<>>,
      <<"/", "a">>,
      <<"/", "a", "/", "a">>,
      <<"/", "a", "/", "*">>,
      <<"/", "*">>,
      <<"a", "/", "a">> }

\* the network interfaces of the host: index and assigned addresses in order
Interfaces ==
    [lo   |-> [index |-> 1, addrs |-> << [v4 |-> FALSE, ip |-> "::1"],
                                         [v4 |-> TRUE,  ip |-> "127.0.0.1"] >>],
     eth0 |-> [index |-> 2, addrs |-> << [v4 |-> TRUE,  ip |-> "10.0.0.2"] >>],
     sit0 |-> [index |-> 3, addrs |-> << [v4 |-> FALSE, ip |-> "fe80::1"] >>]]

\* the values of flag -i the model starts with
NetIFs == {"", "sit0", "wlan9"}

\* the argument of os.Exit in exit
ExitStatus == 10

\* resolvePath: the error it returns and the root and file it leaves
resolvePath(f, r) ==
    LET r1 == IF Len(r) = 0 THEN Cwd ELSE r
        st == Stat(f, r1)
    IN  IF st.err # "" THEN [err |-> st.err, root |-> r1, file |-> <<>>]
        ELSE IF st.isDir
             THEN [err |-> "", root |-> Abs(r1), file |-> Sentinel]
             ELSE LET abs == Abs(r1) IN
                  [err |-> "", root |-> Dir(abs), file |-> Base(abs)]

\* resolveInterface: the error, and the first IPv4 address of the interface
\* named by netIF, or of the interface with index 1
resolveInterface(name) ==
    LET found == IF Len(name) > 0
                 THEN {n \in DOMAIN Interfaces : n = name}
                 ELSE {n \in DOMAIN Interfaces : Interfaces[n].index = 1}
    IN  IF found = {} THEN [err |-> "no such network interface", ip |-> ""]
        ELSE LET n == CHOOSE x \in found : TRUE
                 v4 == SelectSeq(Interfaces[n].addrs, LAMBDA a : a.v4)
             IN  IF v4 = <<>> THEN [err |-> "fail to find addr", ip |-> ""]
                 ELSE [err |-> "", ip |-> Head(v4).ip]

\* a handler invocation that is not running
IdleReq ==
    [pc |-> "idle", path |-> <<>>, query |-> <<>>, isDir |-> FALSE,
     status |-> 0, sent |-> <<>>, body |-> "", files |-> <<>>,
     ops |-> {}, via |-> "", errlog |-> "", trace |-> <<>>, stable |-> TRUE]

Init ==
    /\ fs \in InitialFS
    /\ fsChanges = 0
    /\ mainpc = "start"
    /\ root \in Args
    /\ file = <<>>
    /\ netIF \in NetIFs
    /\ ip = ""
    /\ exitCode = -1
    /\ resolves = 0
    /\ req = [s \in Slots |-> IdleReq]
    /\ handles = {}

\* exit: the process ends with status 10
Exit ==
    /\ mainpc' = "exited"
    /\ exitCode' = ExitStatus

\* main, lines 51-54
MainResolvePath ==
    /\ mainpc = "start"
    /\ LET r == resolvePath(fs, root) IN
        /\ root' = r.root
        /\ file' = r.file
        /\ resolves' = resolves + 1
        /\ IF r.err # "" THEN Exit
           ELSE mainpc' = "resolved" /\ UNCHANGED exitCode
    /\ UNCHANGED <<fs, fsChanges, netIF, ip, req, handles>>

\* main, lines 56-59
MainResolveInterface ==
    /\ mainpc = "resolved"
    /\ LET r == resolveInterface(netIF) IN
        /\ ip' = r.ip
        /\ IF r.err # "" THEN Exit
           ELSE mainpc' = "bound" /\ UNCHANGED exitCode
    /\ UNCHANGED <<fs, fsChanges, root, file, netIF, resolves, req, handles>>

\* main, lines 61-77: the handler is registered and the server listens;
\* ListenAndServe returns only with an error (the address cannot be bound)
MainListen ==
    /\ mainpc = "bound"
    /\ \E ok \in BOOLEAN :
          IF ok THEN mainpc' = "serving" /\ UNCHANGED exitCode
          ELSE Exit
    /\ UNCHANGED <<fs, fsChanges, root, file, netIF, ip, resolves, req, handles>>

\* another process creates, removes, replaces or chmods one entry
FsChange ==
    /\ mainpc # "exited"
    /\ fsChanges < MaxFsChanges
    /\ \E n \in Nodes \ {<<>>}, k \in Kinds :
          /\ k # fs[n]
          /\ fs' = [fs EXCEPT ![n] = k]
    /\ fsChanges' = fsChanges + 1
    /\ req' = [s \in Slots |->
                 IF req[s].pc = "idle" THEN req[s]
                 ELSE [req[s] EXCEPT !.stable = FALSE]]
    /\ UNCHANGED <<mainpc, root, file, netIF, ip, exitCode, resolves, handles>>

---------------------------------------------------------------------------
(* The response writer and the helpers of serve. *)

\* ResponseWriter.WriteHeader: the wrapper keeps the code and the inner
\* writer sends it
WriteHeader(r, code) == [r EXCEPT !.status = code, !.sent = Append(@, code)]

\* http.Error: the status, then the message as the body
HttpError(r, code, msg) == [WriteHeader(r, code) EXCEPT !.body = msg]

\* http.NotFound
NotFound(r) == HttpError(r, 404, "404 page not found")

\* internalServerError
internalServerError(r) == HttpError(r, 500, "internal server error.")

\* ResponseWriter.Write: the inner writer sends status 200 first when no
\* status was sent; the wrapper's status is left as it is
Write(r, b) ==
    [r EXCEPT !.sent = IF @ = <<>> THEN <<200>> ELSE @, !.body = b]

\* the statuses http.ServeContent answers with for an opened file: the
\* content, a range of it, not modified, a failed precondition, or a range
\* that cannot be satisfied
ContentStatuses == {200, 206, 304, 412, 416}

\* a request leaves serve: the response is complete
Responded(r, cause, phase) ==
    [r EXCEPT !.pc = "done", !.via = cause,
              !.trace = @ \o <<phase, "Responded">>]

\* s is a suffix of t
IsSuffix(s, t) == Len(s) <= Len(t) /\ SubSeq(t, Len(t) - Len(s) + 1, Len(t)) = s

\* Denied comparing with strings.HasSuffix instead of equality
DeniedBySuffix(path, f) == path # Slash /\ f # Sentinel /\ ~IsSuffix(f, Trim(path))

\* Denied without the exemption of the root path
DeniedEvenRoot(path, f) == f # Sentinel /\ Trim(path) # f

\* serve, lines 82-84: the access policy rejects the path
Denied(path, f) == path # Slash /\ f # Sentinel /\ Trim(path) # f

\* accessCheck without the return after http.NotFound
accessCheckNoReturn(r, f) ==
    LET r1 == [r EXCEPT !.trace = Append(@, "AccessCheck")] IN
    IF Denied(r.path, f)
    THEN [NotFound(r1) EXCEPT !.pc = "stat"]
    ELSE [r1 EXCEPT !.pc = "stat"]

\* serve, lines 82-88
accessCheck(r, f) ==
    LET r1 == [r EXCEPT !.trace = Append(@, "AccessCheck")] IN
    IF Denied(r.path, f)
    THEN Responded(NotFound(r1), "access", "NotFound")
    ELSE [r1 EXCEPT !.pc = "stat"]

\* serve, lines 89-99
statStep(r, f, rt) ==
    LET query == Join(rt, r.path)
        st == Stat(f, query)
        r1 == [r EXCEPT !.query = query, !.ops = @ \cup {"stat"},
                        !.trace = Append(@, "Stat")]
    IN  IF st.err # ""
        THEN IF IsNotExist(st.err)
             THEN Responded(NotFound(r1), "stat", "NotFound")
             ELSE Responded(internalServerError([r1 EXCEPT !.errlog = st.err]),
                            "stat", "InternalError")
        ELSE [r1 EXCEPT !.isDir = st.isDir,
                        !.pc = IF st.isDir THEN "dir" ELSE "file"]

\* listFiles, lines 222-224: one link per name
Links(path, names) ==
    [i \in 1..Len(names) |-> [href |-> Join(path, names[i]), name |-> names[i]]]

\* serve, lines 103-105: the entries put before the directory's own
Prefix(path) == IF path # Slash THEN <<DotDot>> ELSE <<>>

\* ServeAll taking the directory branch's first arm in either mode
ServeAllAlways(fl) == TRUE

\* serve, line 102: every file under root may be visited
ServeAll(fl) == fl = Sentinel

\* serve, line 115: the one entry listed when a single file is served
SingleEntry(fl) == <<fl>>

\* serve, lines 117-120, and listFiles: the page is written, which sends
\* status 200; werr: the write fails, which is logged
listFiles(r, names, werr) ==
    [Write([r EXCEPT !.files = Links(r.path, names)], "listing")
        EXCEPT !.pc = "done", !.via = "list",
               !.errlog = IF werr THEN "EPIPE" ELSE @,
               !.trace = @ \o <<"Directory", "Responded">>]

\* serve, lines 100-120
dirStep(r, f, fl, werr) ==
    IF ServeAll(fl)
    THEN LET rd == ReadDir(f, r.query)
             r1 == [r EXCEPT !.ops = @ \cup {"readdir"}]
         IN  IF rd.err # ""
             THEN Responded(internalServerError(r1), "readdir", "InternalError")
             ELSE listFiles(r1, Prefix(r.path) \o rd.names, werr)
    ELSE listFiles(r, SingleEntry(fl), werr)

\* serve, lines 122-127
openStep(r, f) ==
    LET err == Open(f, r.query)
        r1 == [r EXCEPT !.ops = @ \cup {"open"}]
    IN  IF err # ""
        THEN Responded(internalServerError([r1 EXCEPT !.errlog = err]),
                       "open", "InternalError")
        ELSE [r1 EXCEPT !.pc = "content", !.trace = Append(@, "File")]

\* serve, line 128
serveContent(r, code) ==
    [WriteHeader(r, code) EXCEPT !.body = "content", !.via = "content", !.pc = "close"]

\* serve, lines 129-132; cerr: closing the file fails
closeStep(r, cerr) ==
    [r EXCEPT !.pc = "done", !.errlog = IF cerr THEN "EIO" ELSE @,
              !.trace = Append(@, "Responded")]

\* Release when f.Close is not called
ReleaseNothing(h, s) == h

\* f.Close releases the handle of invocation s
Release(h, s) == h \ {s}

\* Accepting when the server is started before the flags are resolved
AcceptingEarly(pc) == pc # "exited"

\* the server hands requests to the handler once ListenAndServe runs
Accepting(pc) == pc = "serving"

---------------------------------------------------------------------------
(* The handler: one action per step of an invocation. *)

\* the handler of main, lines 61-62: a request for one of paths arrives
\* and runs as the first invocation that is free
Arrive(s, paths) ==
    /\ Accepting(mainpc)
    /\ req[s].pc = "idle"
    /\ \A t \in Slots : t < s => req[t].pc # "idle"
    /\ \E p \in paths :
          req' = [req EXCEPT ![s] =
                     [IdleReq EXCEPT !.pc = "access", !.path = p, !.status = 200,
                                     !.trace = <<"Start">>]]
    /\ UNCHANGED <<fs, fsChanges, mainpc, root, file, netIF, ip, exitCode, resolves, handles>>

AccessCheck(s) ==
    /\ req[s].pc = "access"
    /\ req' = [req EXCEPT ![s] = accessCheck(req[s], file)]
    /\ UNCHANGED <<fs, fsChanges, mainpc, root, file, netIF, ip, exitCode, resolves, handles>>

StatStep(s) ==
    /\ req[s].pc = "stat"
    /\ req' = [req EXCEPT ![s] = statStep(req[s], fs, root)]
    /\ UNCHANGED <<fs, fsChanges, mainpc, root, file, netIF, ip, exitCode, resolves, handles>>

DirStep(s) ==
    /\ req[s].pc = "dir"
    /\ \E werr \in BOOLEAN :
          req' = [req EXCEPT ![s] = dirStep(req[s], fs, file, werr)]
    /\ UNCHANGED <<fs, fsChanges, mainpc, root, file, netIF, ip, exitCode, resolves, handles>>

OpenStep(s) ==
    /\ req[s].pc = "file"
    /\ req' = [req EXCEPT ![s] = openStep(req[s], fs)]
    /\ handles' = IF req'[s].pc = "content" THEN handles \cup {s} ELSE handles
    /\ UNCHANGED <<fs, fsChanges, mainpc, root, file, netIF, ip, exitCode, resolves>>

ContentStep(s) ==
    /\ req[s].pc = "content"
    /\ \E code \in ContentStatuses :
          req' = [req EXCEPT ![s] = serveContent(req[s], code)]
    /\ UNCHANGED <<fs, fsChanges, mainpc, root, file, netIF, ip, exitCode, resolves, handles>>

CloseStep(s) ==
    /\ req[s].pc = "close"
    /\ \E cerr \in BOOLEAN :
          req' = [req EXCEPT ![s] = closeStep(req[s], cerr)]
    /\ handles' = Release(handles, s)
    /\ UNCHANGED <<fs, fsChanges, mainpc, root, file, netIF, ip, exitCode, resolves>>

\* the handler of main, lines 63-70: serve has returned, the access log
\* line is written and the invocation ends
Return(s) ==
    /\ req[s].pc = "done"
    /\ req' = [req EXCEPT ![s] = IdleReq]
    /\ UNCHANGED <<fs, fsChanges, mainpc, root, file, netIF, ip, exitCode, resolves, handles>>

\* only invocation s is running or about to run
Alone(s) == \A t \in Slots \ {s} : req[t].pc = "idle"

\* the server handling one request at a time, on a filesystem that other
\* processes change
Next ==
    \/ MainResolvePath
    \/ MainResolveInterface
    \/ MainListen
    \/ FsChange
    \/ \E s \in Slots : Alone(s) /\ Arrive(s, ReqPaths)
    \/ \E s \in Slots : AccessCheck(s)
    \/ \E s \in Slots : StatStep(s)
    \/ \E s \in Slots : DirStep(s)
    \/ \E s \in Slots : OpenStep(s)
    \/ \E s \in Slots : ContentStep(s)
    \/ \E s \in Slots : CloseStep(s)
    \/ \E s \in Slots : Return(s)

Spec == Init /\ [][Next]_vars

\* the flags and filesystems the concurrent server is started with
ConcInit ==
    /\ Init
    /\ fs \in {SiteFS, LockedFS}
    /\ root \in {<<"/", "a", "/", "a">>, <<"/", "a", "/", "*">>}

\* the server handling requests side by side, one goroutine per request,
\* for paths the mux has not redirected, on a filesystem that does not change
ConcNext ==
    \/ MainResolvePath
    \/ MainResolveInterface
    \/ MainListen
    \/ \E s \in Slots : Arrive(s, CanonicalPaths(ConcPathLen))
    \/ \E s \in Slots : AccessCheck(s)
    \/ \E s \in Slots : StatStep(s)
    \/ \E s \in Slots : DirStep(s)
    \/ \E s \in Slots : OpenStep(s)
    \/ \E s \in Slots : ContentStep(s)
    \/ \E s \in Slots : CloseStep(s)
    \/ \E s \in Slots : Return(s)

ConcSpec == ConcInit /\ [][ConcNext]_vars

---------------------------------------------------------------------------
(* Vocabulary of the properties. *)

\* the filesystem node a cleaned absolute path names
NodeOf(q) == Split(q)

\* q is directory rt itself or lies below it
Under(rt, q) ==
    \/ q = rt
    \/ rt = Slash /\ IsAbs(q)
    \/ /\ Len(q) > Len(rt)
       /\ SubSeq(q, 1, Len(rt)) = rt
       /\ q[Len(rt) + 1] = Sep

\* the proper ancestors of node that are not directories the process may search
BadAncestors(f, node) ==
    {i \in 0..(Len(node) - 1) : Kind(f, SubSeq(node, 1, i)) # "dir"}

FirstBad(f, node) ==
    CHOOSE i \in BadAncestors(f, node) : \A j \in BadAncestors(f, node) : i <= j

\* a lookup of node fails
LookupFails(f, node) == BadAncestors(f, node) # {} \/ Kind(f, node) = "none"

\* a lookup of node fails because the entry, or a directory on the way to
\* it, does not exist
Missing(f, node) ==
    IF BadAncestors(f, node) = {} THEN Kind(f, node) = "none"
    ELSE Kind(f, SubSeq(node, 1, FirstBad(f, node))) = "none"

\* the names of the entries of directory node
ChildNames(f, node) == {n \in Names : Kind(f, Append(node, n)) # "none"}

\* the names a listing links to, in order
ListedNames(r) == [i \in 1..Len(r.files) |-> r.files[i].name]

SingleFileMode == file # Sentinel

---------------------------------------------------------------------------
(* C1: in single-file mode a request for a path other than "/" whose      *)
(* trimmed form is not the served file is answered 404, and serve neither *)
(* stats, opens nor reads anything for it, whatever the filesystem holds  *)
(* at that path.                                                          *)
C1_OtherPathsAre404 ==
    \A s \in Slots :
        LET r == req[s] IN
        (/\ r.pc \notin {"idle", "access"}
         /\ SingleFileMode
         /\ r.path # Slash
         /\ Trim(r.path) # file)
        => /\ r.pc = "done"
           /\ r.sent = <<404>>
           /\ r.status = 404
           /\ r.ops = {}
           /\ r.query = <<>>
           /\ s \notin handles

\* a rejected request for a path at which the filesystem holds an entry
C1_Witness ==
    \E s \in Slots :
        LET r == req[s] IN
        /\ r.pc = "done"
        /\ SingleFileMode
        /\ r.path # Slash
        /\ Trim(r.path) # file
        /\ r.sent = <<404>>
        /\ ~LookupFails(fs, NodeOf(Join(root, r.path)))
        /\ Kind(fs, NodeOf(Join(root, r.path))) = "file"
        /\ Under(root, Join(root, r.path))

(* C2: the path serve stats, lists or opens is root itself or lies below  *)
(* root, for every request path.                                          *)
C2_QueryStaysUnderRoot ==
    \A s \in Slots :
        "stat" \in req[s].ops => Under(root, req[s].query)

(* C3: when every file is served, the listing of a directory under root   *)
(* holds one entry per entry of the directory, after a leading ".." entry *)
(* unless the directory is root, which is listed without "..".            *)
C3_ListingOfDirectory ==
    \A s \in Slots :
        LET r == req[s]
            kids == ChildNames(fs, NodeOf(r.query))
            own == IF r.query = root THEN ListedNames(r) ELSE Tail(ListedNames(r))
        IN
        (/\ r.pc = "done"
         /\ r.via = "list"
         /\ ~SingleFileMode
         /\ r.stable
         /\ Under(root, r.query))
        => /\ r.query # root => (r.files # <<>> /\ r.files[1].name = DotDot)
           /\ {own[i] : i \in 1..Len(own)} = kids
           /\ Len(own) = Cardinality(kids)

(* C4: resolvePath on a regular file, whatever its base name, leaves     *)
(* single-file mode with root the absolute parent directory and file the  *)
(* base name; on a directory it leaves serve-everything mode with root    *)
(* its absolute path.  Either way root is an existing directory and file, *)
(* when not the sentinel, names a file directly inside root.              *)
C4_ResolvePathContract ==
    [][(mainpc = "start" /\ mainpc' = "resolved") =>
        LET arg == IF root = <<>> THEN Cwd ELSE root
            node == NodeOf(Abs(arg))
        IN  /\ IF Kind(fs, node) \in {"dir", "nodir"}
               THEN file' = Sentinel /\ root' = Abs(arg)
               ELSE /\ file' # Sentinel
                    /\ file' = Last(node)
                    /\ NodeOf(root') = Front(node)
            /\ Kind(fs, NodeOf(root')) \in {"dir", "nodir"}
            /\ file' # Sentinel =>
                   Kind(fs, Append(NodeOf(root'), file')) \in {"file", "nofile"}
      ]_vars

(* C5: a request for "/" is never answered 404 by the access check, in    *)
(* either mode: serve goes on to stat root, and while root is a readable  *)
(* directory the answer is a 200 listing.                                 *)
C5_RootAlwaysReachable ==
    \A s \in Slots :
        LET r == req[s] IN
        (r.path = Slash /\ r.pc \notin {"idle", "access"})
        => /\ r.via # "access"
           /\ r.pc = "stat" \/ ("stat" \in r.ops /\ r.query = root)
           /\ (/\ r.pc = "done"
               /\ r.stable
               /\ ~LookupFails(fs, NodeOf(root))
               /\ Kind(fs, NodeOf(root)) = "dir")
              => (r.sent = <<200>> /\ r.status = 200 /\ r.body = "listing")

\* "/" was requested in single-file mode and answered with a listing
C5_Witness ==
    \E s \in Slots :
        /\ req[s].pc = "done"
        /\ req[s].path = Slash
        /\ SingleFileMode
        /\ req[s].stable
        /\ req[s].sent = <<200>>
        /\ req[s].body = "listing"

(* C6: a listing rendered in single-file mode holds exactly one entry,    *)
(* the served file's name: no ".." and none of the directory's entries,   *)
(* which are not read.                                                    *)
C6_SingleFileListing ==
    \A s \in Slots :
        LET r == req[s] IN
        (r.via = "list" /\ SingleFileMode)
        => /\ Len(r.files) = 1
           /\ r.files[1].name = file
           /\ "readdir" \notin r.ops
           /\ r.isDir

\* a single-file listing of a directory that holds other entries as well
C6_Witness ==
    \E s \in Slots :
        /\ req[s].via = "list"
        /\ SingleFileMode
        /\ req[s].stable
        /\ ListedNames(req[s]) = <<file>>
        /\ ChildNames(fs, NodeOf(req[s].query)) \ {file} # {}

\* the statuses a finished request may carry, given the configuration and
\* the filesystem it ran on; content: the statuses allowed for an opened file
Outcome(r, content) ==
    IF r.path # Slash /\ SingleFileMode /\ Trim(r.path) # file THEN {404}
    ELSE LET node == NodeOf(Join(root, r.path))
             k == Kind(fs, node)
         IN  IF LookupFails(fs, node)
             THEN IF Missing(fs, node) THEN {404} ELSE {500}
             ELSE IF k \in {"dir", "nodir"}
                  THEN IF ~SingleFileMode /\ k = "nodir" THEN {500} ELSE {200}
                  ELSE IF k = "nofile" THEN {500} ELSE content

\* what holds of every status serve sends, whichever statuses an opened
\* file may be answered with
StatusMapping(r, content) ==
    /\ \A i \in 1..Len(r.sent) :
          /\ r.sent[i] = 404 <=> (r.via \in {"access", "stat"} /\ r.errlog = "")
          /\ r.sent[i] = 500 =>
                /\ r.via \in {"stat", "readdir", "open"}
                /\ r.body = "internal server error."
                /\ r.body # r.errlog
          /\ r.via = "content" => r.sent[i] \in content
          /\ r.via = "list" => r.sent[i] = 200
    /\ (r.pc = "done" /\ r.stable) => r.sent \in {<<c>> : c \in Outcome(r, content)}

(* C7 as stated: the only error statuses are 404 (the access check        *)
(* rejects the path, or the stat finds the path or a directory on the way *)
(* to it missing) and 500 (another stat failure, a failed directory read  *)
(* in serve-everything mode, a failed open), and the 500 body is the      *)
(* fixed message without the operating system's error.                    *)
C7_OnlyErrors404And500 ==
    \A s \in Slots :
        /\ \A i \in 1..Len(req[s].sent) :
              req[s].sent[i] >= 400 => req[s].sent[i] \in {404, 500}
        /\ StatusMapping(req[s], {c \in ContentStatuses : c < 400})

(* C7 as amended: serve's own code sends no error status but 404 and 500, *)
(* mapped as stated, with the fixed 500 body; for a file it has opened    *)
(* the status is the content responder's, which besides 200, 206 and 304  *)
(* may be 412 or 416.                                                     *)
C7_ErrorsOfServeAndResponder ==
    \A s \in Slots :
        /\ \A i \in 1..Len(req[s].sent) :
              req[s].sent[i] >= 400 =>
                  \/ req[s].sent[i] \in {404, 500} /\ req[s].via # "content"
                  \/ req[s].sent[i] \in {412, 416} /\ req[s].via = "content"
        /\ StatusMapping(req[s], {200, 206, 304, 412, 416})

\* a stat that failed for another reason than a missing entry, answered
\* 500 with the error in the log only
C7_Witness ==
    \E s \in Slots :
        /\ req[s].pc = "done"
        /\ req[s].stable
        /\ req[s].via = "stat"
        /\ req[s].sent = <<500>>
        /\ req[s].errlog = "EACCES"
        /\ req[s].body = "internal server error."

(* C8: a request that opened a file has closed it when serve returns, on  *)
(* every path through the handler: the open handles are exactly those of  *)
(* the requests between their open and their close, however the requests  *)
(* interleave.                                                            *)
C8_HandlesClosedOnReturn ==
    /\ handles = {s \in Slots : req[s].pc \in {"content", "close"}}
    /\ \A s \in Slots : req[s].pc \in {"idle", "done"} => s \notin handles

\* one request has returned after serving a file while another holds its
\* file open
C8_Witness ==
    \E s, t \in Slots :
        /\ s # t
        /\ req[s].pc = "done"
        /\ "open" \in req[s].ops
        /\ req[s].via = "content"
        /\ t \in handles
        /\ s \notin handles

\* the ways through the handler's state machine; the access check answers
\* 404 itself, without a stat
Ways ==
    { <<"Start", "AccessCheck", "NotFound", "Responded">>,
      <<"Start", "AccessCheck", "Stat", "NotFound", "Responded">>,
      <<"Start", "AccessCheck", "Stat", "InternalError", "Responded">>,
      <<"Start", "AccessCheck", "Stat", "Directory", "Responded">>,
      <<"Start", "AccessCheck", "Stat", "File", "Responded">> }

IsPrefix(p, w) == Len(p) <= Len(w) /\ SubSeq(w, 1, Len(p)) = p

\* the positions at which an invocation has a next step of serve to take
Running == {"access", "stat", "dir", "file", "content", "close"}

\* the order of the handler's positions
Rank(pc) ==
    CASE pc = "access" -> 1
      [] pc = "stat" -> 2
      [] pc \in {"dir", "file"} -> 3
      [] pc = "content" -> 4
      [] pc = "close" -> 5
      [] pc = "done" -> 6
      [] OTHER -> 0

\* the trace, the position and the statuses of invocation r agree
OneStatus(r) ==
    /\ Len(r.sent) <= 1
    /\ r.pc = "done" => (Len(r.sent) = 1 /\ r.trace \in Ways)
    /\ r.pc \notin {"idle", "done"} =>
          /\ \E w \in Ways : IsPrefix(r.trace, w) /\ r.trace # w
          /\ r.sent = <<>> \/ r.pc = "close"
          /\ r.pc \in Running /\ Len(r.trace) < 5
    /\ r.pc = "idle" => r.sent = <<>>
    /\ r.sent # <<>> =>
          r.status = r.sent[1] \/ (r.via = "list" /\ r.status = 200)

(* C9: every invocation of serve moves along Start, AccessCheck, Stat,    *)
(* one of Directory, File, NotFound and InternalError, Responded, is at a *)
(* step of serve until it has responded, and ends having sent exactly one *)
(* status; a failed write of the listing or a failed close is logged and  *)
(* sends no further status.                                               *)
C9_OneStatusPerRequest ==
    /\ [](\A s \in Slots : OneStatus(req[s]))
    /\ [][\A s \in Slots :
             (req[s].pc \in Running /\ req'[s].pc # req[s].pc)
             => Rank(req'[s].pc) > Rank(req[s].pc)]_vars

\* a request that has responded although writing the listing failed
C9_Witness ==
    \E s \in Slots :
        /\ req[s].pc = "done"
        /\ req[s].via = "list"
        /\ req[s].errlog = "EPIPE"
        /\ req[s].sent = <<200>>
        /\ req[s].trace = <<"Start", "AccessCheck", "Stat", "Directory", "Responded">>

(* C10: resolvePath runs once, before any request: a request is handled   *)
(* only after resolvePath and resolveInterface succeeded; a failure of    *)
(* resolvePath, resolveInterface or listen ends the process with status   *)
(* 10 and no request served; and once the server serves, no handler step  *)
(* changes root or file, so that all requests see the same pair.          *)
C10_ResolvedOnceBeforeServing ==
    /\ [](/\ resolves <= 1
          /\ (\E s \in Slots : req[s].pc # "idle") =>
                 /\ mainpc = "serving"
                 /\ resolves = 1
                 /\ file # <<>>
                 /\ ip # ""
          /\ mainpc \in {"resolved", "bound", "serving"} => (resolves = 1 /\ file # <<>>)
          /\ mainpc \in {"bound", "serving"} => ip # ""
          /\ mainpc = "exited" <=> exitCode = ExitStatus
          /\ mainpc # "exited" => exitCode = -1
          /\ mainpc = "exited" => \A s \in Slots : req[s] = IdleReq)
    /\ [][/\ req' # req => mainpc = "serving"
          /\ mainpc = "serving" => (mainpc' = "serving" /\ root' = root /\ file' = file)
          /\ mainpc' = "exited" => mainpc \in {"start", "resolved", "bound", "exited"}
          /\ resolves' # resolves => mainpc = "start"
       ]_vars

\* the requests in flight run side by side against the one resolved pair
C10_Witness ==
    /\ mainpc = "serving"
    /\ resolves = 1
    /\ \A s \in Slots : req[s].pc \in {"stat", "dir", "file", "content", "close"}
    /\ \E s, t \in Slots : s # t /\ req[s].path # req[t].path

============================================================================
